---- MODULE Spec2Model ----
(***************************************************************************)
(* Model of PullRequestsTreeDataProvider (src/view/prsTreeDataProvider.ts) *)
(* as a state machine.  One action per handler turn: an async method is    *)
(* split at its await points, and nowhere else.                            *)
(***************************************************************************)
EXTENDS Bags, FiniteSets, Integers, Sequences, TLC

(***************************************************************************)
(* Bounds of the model.                                                    *)
(***************************************************************************)
MaxFolders == 2
MaxRootSets == 2
MaxPending == 1
MaxDisposeCalls == 1
MaxCalls == 2

(***************************************************************************)
(* Values of the collaborators' enumerations that the provider reads.      *)
(***************************************************************************)
ReposManagerState == {"Initializing", "NeedsAuthentication", "RepositoriesLoaded"}

\* The categories WorkspaceFolderNode.getCategoryTreeNodes builds for one
\* folder, in order; a category's id is its persistence key.
Categories == <<"Query", "All">>

CategoryIds == {Categories[i] : i \in 1..Len(Categories)}

\* Values of the `remotes` setting: not set, or a list of remote names.
Undefined == <<"undefined">>

\* A setting the turn did not read.
Unread == <<"unread">>

RemotesSettings == {Undefined, <<"origin">>}

(***************************************************************************)
(* Tree nodes.  Every node is a record of one shape; `parent` is the first *)
(* constructor argument (the provider itself for root-level nodes).        *)
(***************************************************************************)
Range(s) == {s[i] : i \in 1..Len(s)}

Provider == [kind |-> "provider"]

NoElement == [kind |-> "undefined"]

Node(kind, type, gen, idx, parent) ==
    [kind |-> kind, type |-> type, gen |-> gen, idx |-> idx, parent |-> parent]

\* new PRCategoryActionNode(this, type)
PRCategoryActionNode(parent, type) == Node("Action", type, 0, 0, parent)

\* new WorkspaceFolderNode(this, rootUri, folderManager, ...)
WorkspaceFolderNode(parent, gen, idx) == Node("WorkspaceFolder", "folder", gen, idx, parent)

\* One CategoryTreeNode of WorkspaceFolderNode.getCategoryTreeNodes(folderManager, telemetry, this, ...)
CategoryTreeNode(parent, gen, idx) == Node("Category", Categories[idx], gen, idx, parent)

getCategoryTreeNodes(parent, gen) ==
    [i \in 1..Len(Categories) |-> CategoryTreeNode(parent, gen, i)]

\* TreeNode.getChildren() of a node the provider delegates to: the node's
\* own children, whose parent is that node (the category nodes of a
\* workspace folder, the items of a category).
NodeGetChildren(element) ==
    IF element.kind = "WorkspaceFolder"
    THEN getCategoryTreeNodes(element, element.gen)
    ELSE <<Node("PullRequest", "item", element.gen, 1, element)>>

\* TreeNode.getParent(): the parent when it is a tree node, else undefined.
NodeGetParent(element) ==
    IF element.parent.kind \in {"provider", "undefined"} THEN NoElement ELSE element.parent

\* PullRequestsTreeDataProvider.getParent(element)
getParent(element) == NodeGetParent(element)

(***************************************************************************)
(* Persisted expansion set: a JS array in workspaceState, read into a Set  *)
(* (insertion ordered, duplicate free) and written back as an array.       *)
(***************************************************************************)
RECURSIVE NewSet(_)
NewSet(arr) ==
    IF arr = <<>> THEN <<>>
    ELSE LET front == NewSet(SubSeq(arr, 1, Len(arr) - 1))
             x == arr[Len(arr)]
         IN IF x \in Range(front) THEN front ELSE Append(front, x)

SetAddTwice(set, x) == Append(set, x)

SetAdd(set, x) == IF x \in Range(set) THEN set ELSE Append(set, x)

SetDeleteFirstOnly(set, x) ==
    IF x \in Range(set) /\ set[1] = x THEN Tail(set) ELSE set

SetDelete(set, x) == SelectSeq(set, LAMBDA y : y # x)

ArrayFrom(set) == set

IsAnyTreeNode(element) == TRUE

\* Line 122: element instanceof CategoryTreeNode
IsCategoryTreeNode(element) == element.kind = "Category"

\* _updateExpandedQueries(element, isExpanded): the new stored array.
UpdateExpandedQueries(stored, element, isExpanded) ==
    IF IsCategoryTreeNode(element)
    THEN LET expandedQueries == NewSet(stored)
         IN IF isExpanded
            THEN ArrayFrom(SetAdd(expandedQueries, element.type))
            ELSE ArrayFrom(SetDelete(expandedQueries, element.type))
    ELSE stored

(***************************************************************************)
(* State.                                                                  *)
(***************************************************************************)
VARIABLES
    _initialized,     \* this._initialized
    _reposManager,    \* this._reposManager: "undefined" or "manager"
    _disposables,     \* this._disposables: the subscriptions pushed, in order
    released,         \* per entry of _disposables: calls of its dispose()
    _children,        \* this._children: the current root set
    disposeCount,     \* per root-set node ever constructed: calls of its dispose()
    rootSets,         \* number of root sets constructed so far (their generation)
    folderManagers,   \* reposManager.folderManagers.length
    state,            \* reposManager.state
    workspaceState,   \* workspaceState[EXPANDED_QUERIES_STATE]: the stored array
    pending,          \* getChildren calls suspended at an await (a bag)
    last              \* what the most recent handler turn did and returned

vars == <<_initialized, _reposManager, _disposables, released, _children, disposeCount, rootSets,
          folderManagers, state, workspaceState, pending, last>>

\* The subscriptions the constructor pushes, in order (lines 50-118).
ConstructorDisposables ==
    <<"PRStatusDecorationProvider", "registerFileDecorationProvider", "pr.refreshList",
      "pr.loadMore", "view", "pr.configurePRViewlet", "onDidChangeConfiguration:fileListLayout",
      "onDidChangeCheckboxState", "onDidExpandElement", "onDidCollapseElement">>

Repeat(x, n) == [i \in 1..n |-> x]

\* The subscriptions initialize pushes, in order (lines 161-193), for
\* nFolders folder managers and nReviewModels review models.
InitializeDisposables(nFolders, nReviewModels) ==
    <<"onDidChangeState">>
    \o Repeat("onDidChangeRepositories", nFolders)
    \o Repeat("onDidChangeLocalFileChanges", nReviewModels)
    \o <<"notificationProvider">>
    \o <<"onDidChangeConfiguration:queries">>

\* The record of a handler turn; each action fills in what it did:
\*   op, element               the handler and its argument
\*   result, threw             what it returned, or that it threw
\*   fired                     the _onDidChangeTreeData events it fired
\*   exit                      the return statement getChildren left by
\*   gate                      needsRemotes ran in this call
\*   gateState                 this._reposManager?.state as needsRemotes read it
\*   setContext                setContext(LOADING_PRS_TREE, true) was called
\*   remotesSetting            the `remotes` setting during the turn
\*   enterpriseRemotes, enterpriseAuth
\*                             the enterprise remotes found and the enterprise
\*                             authentication during the turn
\*   noNativeRemotes           no folder repository had a remote during the turn
\*   before                    the stored expansion array before the turn
\*   prev                      for an expand/collapse event that directly follows
\*                             one of the same element: that event's kind and
\*                             the array before it
\*   wrote                     workspaceState.update was called
\*   affects                   the setting keys a configuration change affects
\*   caller                    who called getChildren: the host or expandPullRequest
\*   fetches, emptyAtEntry     for expandPullRequest: the getChildren calls it has
\*                             made, and whether it found the root set empty
NoEvent == [op |-> "none", before |-> <<>>]

Idle ==
    [op |-> "none", element |-> NoElement, result |-> <<>>,
     threw |-> FALSE, fired |-> <<>>, exit |-> "none", gate |-> FALSE,
     gateState |-> "unread", setContext |-> FALSE, remotesSetting |-> Unread,
     enterpriseRemotes |-> 0, enterpriseAuth |-> FALSE, noNativeRemotes |-> FALSE,
     before |-> <<>>, prev |-> NoEvent, wrote |-> FALSE, affects |-> {},
     caller |-> "host", fetches |-> 0, emptyAtEntry |-> FALSE]

\* The arrays _updateExpandedQueries can have stored: duplicate free.
StoredArrays ==
    {s \in UNION {[1..n -> CategoryIds] : n \in 0..Len(Categories)} : NewSet(s) = s}

Init ==
    /\ _initialized = FALSE
    /\ _reposManager = "undefined"
    /\ _disposables = ConstructorDisposables
    /\ released = Repeat(0, Len(ConstructorDisposables))
    /\ _children = <<>>
    /\ disposeCount = <<>>
    /\ rootSets = 0
    /\ folderManagers \in 0..MaxFolders
    /\ state = "Initializing"
    /\ workspaceState \in StoredArrays
    /\ pending = EmptyBag
    /\ last = Idle

(***************************************************************************)
(* initialize(reposManager, reviewModels, credentialStore)                 *)
(***************************************************************************)
AlreadyInitializedUnchecked(initialized) == FALSE

\* Line 155: the guard of initialize.
AlreadyInitialized(initialized) == initialized

\* The review models are one per folder manager.
Initialize ==
    IF AlreadyInitialized(_initialized)
    THEN /\ last' = [Idle EXCEPT !.op = "initialize", !.threw = TRUE]
         /\ UNCHANGED <<_initialized, _reposManager, _disposables, released, _children,
                        disposeCount, rootSets, folderManagers, state, workspaceState, pending>>
    ELSE /\ _initialized' = TRUE
         /\ _reposManager' = "manager"
         /\ _disposables' = _disposables \o InitializeDisposables(folderManagers, folderManagers)
         /\ released' = released
                         \o Repeat(0, Len(InitializeDisposables(folderManagers, folderManagers)))
         /\ last' = [Idle EXCEPT !.op = "initialize", !.fired = <<NoElement>>]
         /\ UNCHANGED <<_children, disposeCount, rootSets, folderManagers, state,
                        workspaceState, pending>>

(***************************************************************************)
(* refresh(node?) and the repository manager's state change.               *)
(***************************************************************************)
\* Every root-set node constructed so far.
RootNodes == DOMAIN disposeCount

\* What the host can pass as an element: nothing, or a node of the root set
\* it displays.
Elements == {NoElement} \cup Range(_children)

RefreshFiresTwice(node) == <<node, node>>

\* Line 197: fire(node) for a node, fire() otherwise.
RefreshFires(node) == <<node>>

Refresh(node) ==
    /\ last' = [Idle EXCEPT !.op = "refresh", !.element = node, !.fired = RefreshFires(node)]
    /\ UNCHANGED <<_initialized, _reposManager, _disposables, released, _children, disposeCount,
                   rootSets, folderManagers, state, workspaceState, pending>>

\* The listener pushed under `name` is subscribed: pushed and not disposed.
Subscribed(name) ==
    \E i \in 1..Len(_disposables) : _disposables[i] = name /\ released[i] = 0

\* The manager moves to state s; the listener of line 162 fires a whole-tree
\* change while it is subscribed.
ChangeState(s) ==
    /\ s # state
    /\ state' = s
    /\ last' = [Idle EXCEPT !.op = "onDidChangeState",
                            !.fired = IF Subscribed("onDidChangeState")
                                      THEN <<NoElement>> ELSE <<>>]
    /\ UNCHANGED <<_initialized, _reposManager, _disposables, released, _children, disposeCount,
                   rootSets, folderManagers, workspaceState, pending>>

\* A listener or command that fires one whole-tree change and does nothing
\* else: pr.refreshList (lines 53-55), onDidChangeRepositories (lines
\* 168-170), and onDidChangeLocalFileChanges through refresh() (line 175).
WholeTreeListeners ==
    {"pr.refreshList", "onDidChangeRepositories", "onDidChangeLocalFileChanges"}

WholeTreeListener(name) ==
    /\ Subscribed(name)
    /\ last' = [Idle EXCEPT !.op = name,
                            !.fired = IF name = "onDidChangeLocalFileChanges"
                                      THEN RefreshFires(NoElement) ELSE <<NoElement>>]
    /\ UNCHANGED <<_initialized, _reposManager, _disposables, released, _children, disposeCount,
                   rootSets, folderManagers, state, workspaceState, pending>>

(***************************************************************************)
(* Configuration changes (lines 97-103 and 186-194) and checkbox changes   *)
(* (lines 105-111).                                                        *)
(***************************************************************************)
\* Setting keys of the namespace a change can affect.
SettingKeys == {"fileListLayout", "queries", "remotes"}

\* e.affectsConfiguration(`${PR_SETTINGS_NAMESPACE}.${key}`)
AffectsConfiguration(keys, key) == key \in keys

QueriesListenerUnsubscribed(subscribed, keys) ==
    IF AffectsConfiguration(keys, "queries") THEN RefreshFires(NoElement) ELSE <<>>

\* Lines 98-102: the listener the constructor subscribes.
FileListLayoutListener(subscribed, keys) ==
    IF subscribed /\ AffectsConfiguration(keys, "fileListLayout") THEN <<NoElement>> ELSE <<>>

\* Lines 188-192: the listener initializeCategories subscribes.
QueriesListener(subscribed, keys) ==
    IF subscribed /\ AffectsConfiguration(keys, "queries") THEN RefreshFires(NoElement) ELSE <<>>

\* A configuration change reaches the subscribed listeners in the order of
\* their subscription.
ConfigurationChange(keys) ==
    /\ last' = [Idle EXCEPT
                   !.op = "onDidChangeConfiguration",
                   !.affects = keys,
                   !.fired =
                      FileListLayoutListener(
                          Subscribed("onDidChangeConfiguration:fileListLayout"), keys)
                      \o QueriesListener(
                          Subscribed("onDidChangeConfiguration:queries"), keys)]
    /\ UNCHANGED <<_initialized, _reposManager, _disposables, released, _children, disposeCount,
                   rootSets, folderManagers, state, workspaceState, pending>>

\* Lines 105-111: each update goes to its node's updateFromCheckboxChanged;
\* the provider keeps no checkbox state of its own.
CheckboxChange ==
    /\ Subscribed("onDidChangeCheckboxState")
    /\ last' = [Idle EXCEPT !.op = "onDidChangeCheckboxState"]
    /\ UNCHANGED <<_initialized, _reposManager, _disposables, released, _children, disposeCount,
                   rootSets, folderManagers, state, workspaceState, pending>>

(***************************************************************************)
(* dispose() (lines 305-307).                                              *)
(***************************************************************************)
DisposeConstructorOnly(counts) ==
    [i \in DOMAIN counts |-> IF i <= Len(ConstructorDisposables) THEN counts[i] + 1 ELSE counts[i]]

\* Line 306: dispose() on every entry of this._disposables.
DisposeEach(counts) == [i \in DOMAIN counts |-> counts[i] + 1]

Dispose ==
    /\ released[1] < MaxDisposeCalls
    /\ released' = DisposeEach(released)
    /\ last' = [Idle EXCEPT !.op = "dispose"]
    /\ UNCHANGED <<_initialized, _reposManager, _disposables, _children, disposeCount,
                   rootSets, folderManagers, state, workspaceState, pending>>

(***************************************************************************)
(* Host expand / collapse events (lines 113-131).                          *)
(***************************************************************************)
\* Nodes the host expands or collapses: the nodes of the root set (category
\* nodes for one folder, workspace-folder nodes for several).
ExpandableNodes == Range(_children)

UpdateExpandedQueriesEvent(element, isExpanded) ==
    /\ Subscribed(IF isExpanded THEN "onDidExpandElement" ELSE "onDidCollapseElement")
    /\ workspaceState' = UpdateExpandedQueries(workspaceState, element, isExpanded)
    /\ last' = [Idle EXCEPT !.op = IF isExpanded THEN "expand" ELSE "collapse",
                            !.element = element,
                            !.wrote = IsCategoryTreeNode(element),
                            !.before = workspaceState,
                            !.prev = IF /\ last.op \in {"expand", "collapse"}
                                        /\ last.element = element
                                     THEN [op |-> last.op, before |-> last.before]
                                     ELSE NoEvent]
    /\ UNCHANGED <<_initialized, _reposManager, _disposables, released, _children, disposeCount,
                   rootSets, folderManagers, state, pending>>

ExpandElement(element) == UpdateExpandedQueriesEvent(element, TRUE)

CollapseElement(element) == UpdateExpandedQueriesEvent(element, FALSE)

(***************************************************************************)
(* getChildren(element?) (lines 243-299) and needsRemotes (lines 211-234). *)
(* Turns: entry up to the await of line 253; from that await to a return   *)
(* or to the await of line 228; from the await of line 228 to the return.  *)
(***************************************************************************)
\* this._reposManager?.folderManagers.length
FolderManagersLength(manager, nFolders) == IF manager = "undefined" THEN 0 ELSE nFolders

EntryGateNoLengthCheck(manager, nFolders, st) ==
    IF manager = "undefined" THEN "noFolderManagers"
    ELSE IF st = "Initializing" THEN "initializing"
    ELSE "await"

EntryGateRemotesFirst(manager, nFolders, st) ==
    IF FolderManagersLength(manager, nFolders) = 0 THEN "noFolderManagers" ELSE "await"

\* Lines 244-251: which way the synchronous part of getChildren leaves.
EntryGate(manager, nFolders, st) ==
    IF FolderManagersLength(manager, nFolders) = 0 THEN "noFolderManagers"
    ELSE IF st = "Initializing" THEN "initializing"
    ELSE "await"

\* The results of manager.getGitHubRemotes() / repository.state.remotes over
\* the folder managers: a number of remotes per folder.
RemoteCounts(nFolders) == [1..nFolders -> 0..1]

\* Lines 254 and 293: no folder has a remote.
NoneHasRemotes(remotes) == {i \in 1..Len(remotes) : remotes[i] > 0} = {}

\* Line 212: this._reposManager?.state === ReposManagerState.NeedsAuthentication
NeedsAuthentication(manager, st) == manager # "undefined" /\ st = "NeedsAuthentication"

NeedsRemotesActionsSwapped(remotesSetting) ==
    IF remotesSetting # Undefined
    THEN <<PRCategoryActionNode(Provider, "ConfigureRemotes"),
           PRCategoryActionNode(Provider, "NoMatchingRemotes")>>
    ELSE <<PRCategoryActionNode(Provider, "NoRemotes")>>

\* Lines 216-226: the actions chosen by the `remotes` setting.
NeedsRemotesActions(remotesSetting) ==
    IF remotesSetting # Undefined
    THEN <<PRCategoryActionNode(Provider, "NoMatchingRemotes"),
           PRCategoryActionNode(Provider, "ConfigureRemotes")>>
    ELSE <<PRCategoryActionNode(Provider, "NoRemotes")>>

WithLoginEnterpriseAlways(actions, manager, enterpriseRemotes, enterpriseAuth) ==
    Append(actions, PRCategoryActionNode(Provider, "LoginEnterprise"))

\* Lines 228-233: LoginEnterprise is pushed last when an enterprise remote
\* exists and enterprise authentication is missing.
WithLoginEnterprise(actions, manager, enterpriseRemotes, enterpriseAuth) ==
    LET found == IF manager # "undefined" THEN enterpriseRemotes ELSE 0
    IN IF found > 0 /\ ~enterpriseAuth
       THEN Append(actions, PRCategoryActionNode(Provider, "LoginEnterprise"))
       ELSE actions

DisposeNone(counts, children) == counts

DisposeFirstOnly(counts, children) ==
    [n \in DOMAIN counts |-> IF children # <<>> /\ n = children[1] THEN counts[n] + 1 ELSE counts[n]]

\* Lines 259-261: dispose() on every node of the current root set.
DisposeAll(counts, children) ==
    [n \in DOMAIN counts |-> IF n \in Range(children) THEN counts[n] + 1 ELSE counts[n]]

BuildRootSetOfFolders(nFolders, gen) ==
    [i \in 1..nFolders |-> WorkspaceFolderNode(Provider, gen, i)]

\* Lines 263-286: the new root set.
BuildRootSet(nFolders, gen) ==
    IF nFolders = 1
    THEN getCategoryTreeNodes(Provider, gen)
    ELSE [i \in 1..nFolders |-> WorkspaceFolderNode(Provider, gen, i)]

EmptyPlaceholderNever(element, noNative) == FALSE

\* Lines 292-296: past the root request, the Empty placeholder is returned
\* when no folder repository has a remote.
EmptyPlaceholder(element, noNative) == noNative

\* this._reposManager?.state
ManagerState(manager, st) == IF manager = "undefined" THEN "undefined" ELSE st

\* A suspended getChildren call: its argument, the await it is at, the
\* locals of needsRemotes once it runs, and its caller.
Call(element, pc, actions, remotesSetting, caller) ==
    [element |-> element, pc |-> pc, actions |-> actions, remotesSetting |-> remotesSetting,
     caller |-> caller]

\* A suspended expandPullRequest call: the await it is at (line 135 with
\* getChildren returned, or line 143), the array its loop iterates and the
\* position in it, and what it did at line 134-135.
ExpandCall(pc, children, idx, fetches, emptyAtEntry) ==
    [pc |-> pc, children |-> children, idx |-> idx, fetches |-> fetches,
     emptyAtEntry |-> emptyAtEntry]

\* What a returning getChildren call resumes: an expandPullRequest that
\* awaits it (line 135) goes on in a later turn.
Awaiter(caller) ==
    IF caller = "expandPullRequest"
    THEN SetToBag({ExpandCall("search", <<>>, 1, 1, TRUE)})
    ELSE EmptyBag

\* The suspended calls once the suspended getChildren call `call` has returned.
Returning(call) == (pending (-) SetToBag({call})) (+) Awaiter(call.caller)

GetChildrenRecord(element) == [Idle EXCEPT !.op = "getChildren", !.element = element]

\* Entry of getChildren, up to a synchronous return or the await of line 253.
GetChildrenEntry(element, caller) ==
    /\ LET gate == EntryGate(_reposManager, folderManagers, state)
           call == Call(element, "remotes", <<>>, Unread, caller)
       IN \/ /\ gate = "noFolderManagers"
             /\ last' = [GetChildrenRecord(element) EXCEPT
                            !.exit = "noFolderManagers", !.caller = caller]
             /\ pending' = pending (+) Awaiter(caller)
          \/ /\ gate = "initializing"
             /\ last' = [GetChildrenRecord(element) EXCEPT
                            !.exit = "initializing", !.setContext = TRUE, !.caller = caller]
             /\ pending' = pending (+) Awaiter(caller)
          \/ /\ gate = "await"
             /\ pending' = pending (+) SetToBag({call})
             /\ last' = [GetChildrenRecord(element) EXCEPT !.exit = "await", !.caller = caller]
    /\ UNCHANGED <<_initialized, _reposManager, _disposables, released, _children, disposeCount,
                   rootSets, folderManagers, state, workspaceState>>

\* The host's getChildren(element?).
GetChildren(element) ==
    /\ EntryGate(_reposManager, folderManagers, state) = "await" =>
          BagCardinality(pending) < MaxPending
    /\ GetChildrenEntry(element, "host")

\* needsRemotes from its entry: to the return of line 213, to the await of
\* line 228, or (without a repository manager, where nothing is awaited) to
\* the return of line 233.
NeedsRemotesEnter(call, setting, enterpriseRemotes, enterpriseAuth) ==
    /\ LET record == [GetChildrenRecord(call.element) EXCEPT
                         !.gate = TRUE, !.remotesSetting = setting, !.caller = call.caller,
                         !.gateState = ManagerState(_reposManager, state)]
       IN IF NeedsAuthentication(_reposManager, state)
          THEN /\ pending' = Returning(call)
               /\ last' = [record EXCEPT !.exit = "needsRemotes"]
          ELSE IF _reposManager # "undefined"
          THEN /\ pending' = (pending (-) SetToBag({call}))
                             (+) SetToBag({Call(call.element, "enterprise",
                                                NeedsRemotesActions(setting), setting,
                                                call.caller)})
               /\ last' = [record EXCEPT !.exit = "await"]
          ELSE /\ pending' = Returning(call)
               /\ last' = [record EXCEPT
                              !.exit = "needsRemotes",
                              !.enterpriseRemotes = enterpriseRemotes,
                              !.enterpriseAuth = enterpriseAuth,
                              !.result = WithLoginEnterprise(NeedsRemotesActions(setting),
                                            _reposManager, enterpriseRemotes, enterpriseAuth)]
    /\ UNCHANGED <<_children, disposeCount, rootSets>>

\* Lines 258-290: the root request.
RootRequest(call, noNative) ==
    /\ rootSets < MaxRootSets
    /\ LET result == BuildRootSet(folderManagers, rootSets + 1)
           disposed == DisposeAll(disposeCount, _children)
       IN /\ disposeCount' = [n \in DOMAIN disposed \cup Range(result) |->
                                 IF n \in DOMAIN disposed THEN disposed[n] ELSE 0]
          /\ _children' = result
          /\ rootSets' = rootSets + 1
          /\ pending' = Returning(call)
          /\ last' = [GetChildrenRecord(call.element) EXCEPT
                         !.exit = "root", !.result = result, !.caller = call.caller,
                         !.noNativeRemotes = noNative]

\* Lines 292-298: a request for the children of an element.
ElementRequest(call, noNative) ==
    /\ pending' = Returning(call)
    /\ last' = [GetChildrenRecord(call.element) EXCEPT
                   !.caller = call.caller,
                   !.exit = IF EmptyPlaceholder(call.element, noNative) THEN "empty" ELSE "delegate",
                   !.result = IF EmptyPlaceholder(call.element, noNative)
                              THEN <<PRCategoryActionNode(Provider, "Empty")>>
                              ELSE NodeGetChildren(call.element),
                   !.noNativeRemotes = noNative]
    /\ UNCHANGED <<_children, disposeCount, rootSets>>

\* The await of line 253 completes with the folders' GitHub remotes.
GetChildrenRemotes(call) ==
    /\ call \in BagToSet(pending)
    /\ call.pc = "remotes"
    /\ \E noGitHub \in {NoneHasRemotes(remotes) : remotes \in RemoteCounts(folderManagers)} :
          IF noGitHub
          THEN \E setting \in RemotesSettings : NeedsRemotesEnter(call, setting, 0, FALSE)
          ELSE \E noNative \in {NoneHasRemotes(native) : native \in RemoteCounts(folderManagers)} :
                  IF call.element = NoElement
                  THEN RootRequest(call, noNative)
                  ELSE ElementRequest(call, noNative)
    /\ UNCHANGED <<_initialized, _reposManager, _disposables, released, folderManagers, state,
                   workspaceState>>

\* The await of line 228 completes with the enterprise remotes; needsRemotes
\* and getChildren return.
NeedsRemotesEnterprise(call) ==
    /\ call \in BagToSet(pending)
    /\ call.pc = "enterprise"
    /\ \E enterpriseRemotes \in 0..1, enterpriseAuth \in BOOLEAN :
          /\ pending' = Returning(call)
          /\ last' = [GetChildrenRecord(call.element) EXCEPT
                         !.exit = "needsRemotes", !.gate = TRUE, !.caller = call.caller,
                         !.result = WithLoginEnterprise(call.actions, _reposManager,
                                                        enterpriseRemotes, enterpriseAuth),
                         !.remotesSetting = call.remotesSetting,
                         !.enterpriseRemotes = enterpriseRemotes,
                         !.enterpriseAuth = enterpriseAuth]
    /\ UNCHANGED <<_initialized, _reposManager, _disposables, released, _children, disposeCount,
                   rootSets, folderManagers, state, workspaceState>>

(***************************************************************************)
(* cachedChildren(element?) (lines 236-241).                               *)
(***************************************************************************)
\* TreeNode.cachedChildren(): the children the node has materialized, if any.
NodeCachedChildren(element, materialized) ==
    IF materialized THEN NodeGetChildren(element) ELSE <<>>

CachedChildrenOfNothing(children, element, materialized) == <<>>

CachedChildrenResult(children, element, materialized) ==
    IF element = NoElement THEN children ELSE NodeCachedChildren(element, materialized)

CachedChildren(element) ==
    /\ \E materialized \in BOOLEAN :
          last' = [Idle EXCEPT !.op = "cachedChildren", !.element = element,
                               !.result = CachedChildrenResult(_children, element, materialized)]
    /\ UNCHANGED <<_initialized, _reposManager, _disposables, released, _children, disposeCount,
                   rootSets, folderManagers, state, workspaceState, pending>>

(***************************************************************************)
(* expandPullRequest(pullRequest) (lines 133-148).  Turns: entry up to the *)
(* await of line 135 or, with a root set, into the loop; the loop up to    *)
(* the await of line 143 or a return; from that await onwards.             *)
(***************************************************************************)
NeedsRootFetchNever(children) == FALSE

\* Line 134
NeedsRootFetch(children) == Len(children) = 0

\* The workspace-folder node that may report a match first, from child i on.
MatchPositions(children, i) ==
    {0} \cup {j \in i..Len(children) : children[j].kind = "WorkspaceFolder"}

\* Lines 137-147 from child i up to a return or the await of line 143:
\* the children expandPullRequest is called on, how the turn ends, and at
\* which child.  The workspace-folder node at matchAt reports a match.
RECURSIVE SearchFrom(_, _, _)
SearchFrom(children, i, matchAt) ==
    IF i > Len(children)
    THEN [outcome |-> "notFound", visited |-> <<>>, idx |-> i]
    ELSE LET child == children[i]
             rest == SearchFrom(children, i + 1, matchAt)
         IN IF child.kind = "WorkspaceFolder"
            THEN IF i = matchAt
                 THEN [outcome |-> "found", visited |-> <<child>>, idx |-> i]
                 ELSE [rest EXCEPT !.visited = <<child>> \o rest.visited]
            ELSE IF child.type = "All"
            THEN [outcome |-> "await", visited |-> <<child>>, idx |-> i]
            ELSE rest

\* The loop runs in this turn over `children` from child i, with `others`
\* the calls that stay suspended.
SearchTurn(others, children, i, fetches, emptyAtEntry) ==
    \E matchAt \in MatchPositions(children, i) :
       LET search == SearchFrom(children, i, matchAt)
       IN /\ pending' = IF search.outcome = "await"
                         THEN others (+) SetToBag({ExpandCall("expandAll", children, search.idx,
                                                              fetches, emptyAtEntry)})
                         ELSE others
          /\ last' = [Idle EXCEPT
                         !.op = "expandPullRequest",
                         !.element = IF search.outcome = "found"
                                     THEN children[search.idx] ELSE NoElement,
                         !.result = search.visited,
                         !.exit = search.outcome,
                         !.fetches = fetches,
                         !.emptyAtEntry = emptyAtEntry]

\* Entry of expandPullRequest.
ExpandPullRequest ==
    /\ BagCardinality(pending) < MaxPending
    /\ IF NeedsRootFetch(_children)
       THEN GetChildrenEntry(NoElement, "expandPullRequest")
       ELSE /\ SearchTurn(pending, _children, 1, 0, Len(_children) = 0)
            /\ UNCHANGED <<_initialized, _reposManager, _disposables, released, _children,
                           disposeCount, rootSets, folderManagers, state, workspaceState>>

\* The await of line 135 completes: the loop starts on this._children.
ExpandPullRequestSearch(call) ==
    /\ call \in BagToSet(pending)
    /\ call.pc = "search"
    /\ SearchTurn(pending (-) SetToBag({call}), _children, 1, call.fetches, call.emptyAtEntry)
    /\ UNCHANGED <<_initialized, _reposManager, _disposables, released, _children,
                   disposeCount, rootSets, folderManagers, state, workspaceState>>

\* The await of line 143 completes with the report of the "All" category.
ExpandPullRequestAll(call) ==
    /\ call \in BagToSet(pending)
    /\ call.pc = "expandAll"
    /\ \E match \in BOOLEAN :
          IF match
          THEN /\ pending' = pending (-) SetToBag({call})
               /\ last' = [Idle EXCEPT
                              !.op = "expandPullRequest",
                              !.element = call.children[call.idx],
                              !.exit = "found",
                              !.fetches = call.fetches,
                              !.emptyAtEntry = call.emptyAtEntry]
          ELSE SearchTurn(pending (-) SetToBag({call}), call.children, call.idx + 1,
                          call.fetches, call.emptyAtEntry)
    /\ UNCHANGED <<_initialized, _reposManager, _disposables, released, _children,
                   disposeCount, rootSets, folderManagers, state, workspaceState>>

(***************************************************************************)
(* The provider with its host and its repository manager.                  *)
(***************************************************************************)
PendingCalls == BagToSet(pending)

Next ==
    \/ Initialize
    \/ \E node \in Elements : Refresh(node)
    \/ \E s \in ReposManagerState : ChangeState(s)
    \/ \E element \in ExpandableNodes : ExpandElement(element)
    \/ \E element \in ExpandableNodes : CollapseElement(element)
    \/ \E element \in Elements : GetChildren(element)
    \/ \E call \in PendingCalls : GetChildrenRemotes(call)
    \/ \E call \in PendingCalls : NeedsRemotesEnterprise(call)

Spec == Init /\ [][Next]_vars

(***************************************************************************)
(* The provider over its whole life: the tree protocol above together with *)
(* the other listeners and commands, cachedChildren, expandPullRequest and *)
(* dispose.                                                                *)
(***************************************************************************)
LifeNext ==
    \/ Next
    \/ \E name \in WholeTreeListeners : WholeTreeListener(name)
    \/ \E keys \in SUBSET SettingKeys \ {{}} : ConfigurationChange(keys)
    \/ CheckboxChange
    \/ \E element \in Elements : CachedChildren(element)
    \/ ExpandPullRequest
    \/ \E call \in PendingCalls : ExpandPullRequestSearch(call)
    \/ \E call \in PendingCalls : ExpandPullRequestAll(call)
    \/ Dispose

LifeSpec == Init /\ [][LifeNext]_vars

(***************************************************************************)
(* The subscriptions alone: the turns that push, use or dispose them.      *)
(***************************************************************************)
ListenerNext ==
    \/ Initialize
    \/ \E s \in ReposManagerState : ChangeState(s)
    \/ \E name \in WholeTreeListeners : WholeTreeListener(name)
    \/ \E keys \in SUBSET SettingKeys \ {{}} : ConfigurationChange(keys)
    \/ CheckboxChange
    \/ Dispose

ListenerSpec == Init /\ [][ListenerNext]_vars

(***************************************************************************)
(* expandPullRequest with the calls it depends on: the root requests of    *)
(* the host and its own.                                                   *)
(***************************************************************************)
ExpandNext ==
    \/ Initialize
    \/ \E s \in ReposManagerState : ChangeState(s)
    \/ GetChildren(NoElement)
    \/ \E call \in PendingCalls : GetChildrenRemotes(call)
    \/ \E call \in PendingCalls : NeedsRemotesEnterprise(call)
    \/ ExpandPullRequest
    \/ \E call \in PendingCalls : ExpandPullRequestSearch(call)
    \/ \E call \in PendingCalls : ExpandPullRequestAll(call)

ExpandSpec == Init /\ [][ExpandNext]_vars

(***************************************************************************)
(* Concurrent getChildren calls on an initialized provider: up to MaxCalls *)
(* calls are suspended at once and their awaits complete in any order.     *)
(***************************************************************************)
RaceInit ==
    /\ _initialized = TRUE
    /\ _reposManager = "manager"
    /\ folderManagers \in 1..MaxFolders
    /\ _disposables = ConstructorDisposables
                       \o InitializeDisposables(folderManagers, folderManagers)
    /\ released = Repeat(0, Len(_disposables))
    /\ _children = <<>>
    /\ disposeCount = <<>>
    /\ rootSets = 0
    /\ state \in ReposManagerState \ {"Initializing"}
    /\ workspaceState = <<>>
    /\ pending = EmptyBag
    /\ last = Idle

\* The host's getChildren(element?) while fewer than MaxCalls calls are
\* suspended.
GetChildrenConcurrent(element) ==
    /\ BagCardinality(pending) < MaxCalls
    /\ GetChildrenEntry(element, "host")

RaceNext ==
    \/ \E element \in Elements : GetChildrenConcurrent(element)
    \/ \E call \in PendingCalls : GetChildrenRemotes(call)
    \/ \E call \in PendingCalls : NeedsRemotesEnterprise(call)

RaceSpec == RaceInit /\ [][RaceNext]_vars

(***************************************************************************)
(* needsRemotes on its own: the gate applied to every repository manager   *)
(* (present or missing), state, setting and enterprise situation.          *)
(***************************************************************************)
GateInit ==
    /\ _reposManager \in {"undefined", "manager"}
    /\ _initialized = (_reposManager = "manager")
    /\ folderManagers \in 0..MaxFolders
    /\ _disposables = IF _initialized
                      THEN ConstructorDisposables
                           \o InitializeDisposables(folderManagers, folderManagers)
                      ELSE ConstructorDisposables
    /\ released = Repeat(0, Len(_disposables))
    /\ _children = <<>>
    /\ disposeCount = <<>>
    /\ rootSets = 0
    /\ state \in ReposManagerState
    /\ workspaceState \in StoredArrays
    /\ pending = SetToBag({Call(NoElement, "needsRemotes", <<>>, Unread, "host")})
    /\ last = Idle

\* A call of needsRemotes, in one turn up to its await or its return.
NeedsRemotes(call) ==
    /\ call \in BagToSet(pending)
    /\ call.pc = "needsRemotes"
    /\ \E setting \in RemotesSettings, enterpriseRemotes \in 0..1, enterpriseAuth \in BOOLEAN :
          NeedsRemotesEnter(call, setting, enterpriseRemotes, enterpriseAuth)
    /\ UNCHANGED <<_initialized, _reposManager, _disposables, released, folderManagers, state,
                   workspaceState>>

GateNext ==
    \/ \E call \in PendingCalls : NeedsRemotes(call)
    \/ \E call \in PendingCalls : NeedsRemotesEnterprise(call)
    \/ \E s \in ReposManagerState : ChangeState(s)

GateSpec == GateInit /\ [][GateNext]_vars

(***************************************************************************)
(* Properties.                                                             *)
(***************************************************************************)
\* The turn in `last` is the entry of a getChildren call (lines 243-253).
EntryTurn ==
    /\ last.op = "getChildren"
    /\ \/ last.exit \in {"noFolderManagers", "initializing"}
       \/ last.exit = "await" /\ ~last.gate

\* The turn in `last` is one in which a getChildren call returned.
Returned == last.op = "getChildren" /\ last.exit # "await"

Types(nodes) == [i \in 1..Len(nodes) |-> IF nodes[i].kind = "Action" THEN nodes[i].type ELSE "node"]

\* C1: every root request (the host's getChildren() after a refresh())
\* disposes each node of the previous root set exactly once, in the turn
\* that stores the new root set as current and returns it.
C1_PreviousRootSetDisposed ==
    [][(last'.op = "getChildren" /\ last'.exit = "root") =>
          /\ \A n \in Range(_children) : disposeCount[n] = 0 /\ disposeCount'[n] = 1
          /\ _children' = last'.result
          /\ \A n \in Range(_children') : n \notin Range(_children) /\ disposeCount'[n] = 0
      ]_vars

C1_Witness ==
    /\ last.op = "getChildren" /\ last.exit = "root"
    /\ rootSets = 2
    /\ \E n \in DOMAIN disposeCount : disposeCount[n] = 1 /\ n \notin Range(_children)

\* C2 (as claimed): getParent(c) is p for every node c that getChildren(p)
\* returned, placeholder action nodes included.
C2_ParentOfChildIsElement ==
    Returned => \A i \in 1..Len(last.result) : getParent(last.result[i]) = last.element

\* C3: initialize on an initialized provider throws, fires nothing and
\* leaves the subscriptions, the repository manager and the root set as
\* they were.
C3_SecondInitializeThrows ==
    [][(_initialized /\ last'.op = "initialize") =>
          /\ last'.threw
          /\ last'.fired = <<>>
          /\ UNCHANGED <<_initialized, _reposManager, _disposables, released, _children,
                         disposeCount, rootSets, pending>>
      ]_vars

C3_Witness == last.op = "initialize" /\ last.threw /\ Len(_disposables) > Len(ConstructorDisposables)

\* C4: with zero folder managers (or no repository manager at all) a root
\* getChildren returns the empty sequence at once: needsRemotes is not run,
\* nothing is awaited and no node is created.
C4_NoFolderManagersEmpty ==
    (last.op = "getChildren" /\ FolderManagersLength(_reposManager, folderManagers) = 0) =>
        /\ last.exit = "noFolderManagers"
        /\ last.result = <<>>
        /\ ~last.gate
        /\ \A call \in PendingCalls : call.pc \notin {"remotes", "enterprise"}

C4_Witness ==
    /\ last.op = "getChildren" /\ last.element = NoElement
    /\ _initialized /\ folderManagers = 0 /\ state # "Initializing"
    /\ last.exit = "noFolderManagers"

\* C5: a getChildren call that finds the manager Initializing (with a folder
\* manager present) returns empty and sets the loading context key, before
\* any remote is looked at: no placeholder node, no needsRemotes.
C5_InitializingFirst ==
    (EntryTurn /\ FolderManagersLength(_reposManager, folderManagers) > 0
               /\ state = "Initializing") =>
        /\ last.exit = "initializing"
        /\ last.result = <<>>
        /\ last.setContext
        /\ ~last.gate

C5_Witness ==
    /\ last.op = "getChildren" /\ last.exit = "initializing" /\ last.setContext
    /\ state = "Initializing" /\ folderManagers > 0

\* C6 (as claimed): a getChildren call with no element that gets past the
\* gates while no folder repository has a native remote returns a single
\* Empty placeholder.
C6_EmptyPlaceholderAtRoot ==
    (Returned /\ last.exit \in {"root", "empty", "delegate"}
              /\ last.element = NoElement /\ last.noNativeRemotes) =>
        Types(last.result) = <<"Empty">>

\* C6 (amended): past the gates, the single Empty placeholder is returned
\* exactly for a call with an element while no folder repository has a
\* native remote; a call with no element returns the new root set.
C6_EmptyPlaceholderForElement ==
    (Returned /\ last.exit \in {"root", "empty", "delegate"}) =>
        /\ (Types(last.result) = <<"Empty">>) <=> (last.element # NoElement /\ last.noNativeRemotes)
        /\ last.element = NoElement => (last.result = _children /\ last.result # <<>>)
        /\ (last.element # NoElement /\ ~last.noNativeRemotes) =>
              last.result = NodeGetChildren(last.element)

C6_Witness ==
    /\ Returned /\ last.element # NoElement /\ last.noNativeRemotes
    /\ Types(last.result) = <<"Empty">>

\* C7 (as claimed): one folder manager, zero GitHub remotes and no allowlist
\* setting give exactly one node, of kind NoRemotes.
C7_OneFolderNoRemotes ==
    (Returned /\ last.exit = "needsRemotes" /\ folderManagers = 1
              /\ last.remotesSetting = Undefined) =>
        Types(last.result) = <<"NoRemotes">>

\* C7 (amended): so they do when moreover the manager does not report
\* NeedsAuthentication when needsRemotes runs (a call that reaches the
\* await of line 228 has passed that check) and no enterprise remote lacks
\* authentication.
C7_OneFolderNoRemotesReady ==
    (Returned /\ last.exit = "needsRemotes" /\ folderManagers = 1
              /\ last.remotesSetting = Undefined
              /\ last.gateState # "NeedsAuthentication"
              /\ ~(last.enterpriseRemotes > 0 /\ ~last.enterpriseAuth)) =>
        Types(last.result) = <<"NoRemotes">>

C7_Witness ==
    /\ Returned /\ last.exit = "needsRemotes" /\ folderManagers = 1
    /\ last.remotesSetting = Undefined /\ state = "RepositoriesLoaded"
    /\ last.enterpriseRemotes > 0 /\ last.enterpriseAuth
    /\ Types(last.result) = <<"NoRemotes">>

\* The placeholders the `remotes` setting selects.
AllowlistActions(setting) ==
    IF setting # Undefined THEN <<"NoMatchingRemotes", "ConfigureRemotes">> ELSE <<"NoRemotes">>

\* C8: needsRemotes returns nothing under NeedsAuthentication; otherwise
\* NoMatchingRemotes, ConfigureRemotes with an allowlist or NoRemotes
\* without one, followed by LoginEnterprise exactly when the manager is
\* present, an enterprise remote exists and enterprise authentication is
\* missing.  (Over the two turns of needsRemotes: it goes on to its await
\* only when the state is not NeedsAuthentication, holding the actions of
\* the setting it read.)
C8_GateTable ==
    (last.op = "getChildren" /\ last.gate) =>
        IF last.gateState = "NeedsAuthentication"
        THEN last.exit = "needsRemotes" /\ last.result = <<>>
        ELSE IF last.exit = "await"
        THEN \E call \in BagToSet(pending) :
                /\ call.pc = "enterprise"
                /\ call.remotesSetting = last.remotesSetting
                /\ Types(call.actions) = AllowlistActions(last.remotesSetting)
        ELSE /\ last.exit = "needsRemotes"
             /\ Types(last.result) =
                   AllowlistActions(last.remotesSetting)
                   \o (IF /\ _reposManager # "undefined"
                          /\ last.enterpriseRemotes > 0
                          /\ ~last.enterpriseAuth
                       THEN <<"LoginEnterprise">>
                       ELSE <<>>)

C8_Witness ==
    /\ Returned /\ last.exit = "needsRemotes"
    /\ last.remotesSetting # Undefined /\ last.enterpriseRemotes > 0 /\ ~last.enterpriseAuth
    /\ Types(last.result) = <<"NoMatchingRemotes", "ConfigureRemotes", "LoginEnterprise">>

\* An expand or collapse event of a category directly after an event `op`
\* of the same category.
CategoryEventAfter(op) ==
    /\ last.op \in {"expand", "collapse"}
    /\ last.element.kind = "Category"
    /\ last.prev.op = op

\* C9 (as claimed): expand Q then collapse Q leaves the stored expansion
\* set as it was before the expand, whatever it held.
C9_ExpandCollapseRoundTrip ==
    (last.op = "collapse" /\ CategoryEventAfter("expand")) =>
        workspaceState = last.prev.before

\* C9 (amended): so it does when Q was not in the set before the expand;
\* when Q was in it, the round trip removes Q.
C9_ExpandCollapseRoundTripFresh ==
    (last.op = "collapse" /\ CategoryEventAfter("expand")) =>
        IF last.element.type \notin Range(last.prev.before)
        THEN workspaceState = last.prev.before
        ELSE /\ Range(workspaceState) = Range(last.prev.before) \ {last.element.type}
             /\ workspaceState # last.prev.before

C9_Witness ==
    /\ last.op = "collapse" /\ CategoryEventAfter("expand")
    /\ last.element.type \notin Range(last.prev.before)
    /\ last.prev.before # <<>>
    /\ workspaceState = last.prev.before

\* C10: the stored expansion set never holds a category twice, and a second
\* expand (collapse) of Q directly after an expand (collapse) of Q leaves
\* what the first left: Q once (Q absent).
C10_ToggleIdempotent ==
    /\ \A i, j \in 1..Len(workspaceState) : i # j => workspaceState[i] # workspaceState[j]
    /\ (last.op = "expand" /\ CategoryEventAfter("expand")) =>
          /\ workspaceState = last.before
          /\ Cardinality({i \in 1..Len(workspaceState) : workspaceState[i] = last.element.type}) = 1
    /\ (last.op = "collapse" /\ CategoryEventAfter("collapse")) =>
          /\ workspaceState = last.before
          /\ last.element.type \notin Range(workspaceState)

C10_Witness ==
    /\ last.op = "expand" /\ CategoryEventAfter("expand")
    /\ last.element.type \notin Range(last.prev.before)
    /\ Len(workspaceState) = 2

\* The nodes of a sequence are in the order of their positions in a root set.
InOrder(nodes) == \A i, j \in 1..Len(nodes) : i < j => nodes[i].idx < nodes[j].idx

\* C11: expandPullRequest entered on an empty root set calls getChildren()
\* (no element) exactly once, and does so before its loop; entered on a
\* root set it calls none.  The loop calls expandPullRequest on
\* workspace-folder nodes and on the "All" category only, in root-set order,
\* and ends at the first node that reports a match; it returns without an
\* error when nothing matches, also over a root set that is still empty.
C11_ExpandPullRequestFetchesOnce ==
    /\ (last.op = "getChildren" /\ last.caller = "expandPullRequest") =>
          /\ last.element = NoElement
          /\ EntryTurn => _children = <<>>
    /\ \A call \in PendingCalls :
          call.pc \in {"search", "expandAll"} =>
             call.fetches = (IF call.emptyAtEntry THEN 1 ELSE 0)
    /\ last.op = "expandPullRequest" =>
          /\ ~last.threw
          /\ last.fetches = (IF last.emptyAtEntry THEN 1 ELSE 0)
          /\ InOrder(last.result)
          /\ \A i \in 1..Len(last.result) :
                last.result[i].kind = "WorkspaceFolder" \/ last.result[i].type = "All"
          /\ (last.exit = "found" /\ last.result # <<>>) =>
                last.result[Len(last.result)] = last.element
          /\ last.exit = "found" <=> last.element # NoElement
          /\ (last.exit = "notFound" /\ _children = <<>>) => last.result = <<>>

C11_Witness ==
    /\ last.op = "expandPullRequest" /\ last.fetches = 1 /\ last.emptyAtEntry
    /\ last.exit = "notFound" /\ Len(last.result) = 2

\* C12: dispose() calls dispose() on every subscription pushed by the
\* constructor and by initialize, those being all the subscriptions the
\* provider holds, and does not throw, initialized or not.
C12_DisposeReleasesAll ==
    last.op = "dispose" =>
        /\ ~last.threw
        /\ _disposables = ConstructorDisposables
                           \o (IF _initialized
                               THEN InitializeDisposables(folderManagers, folderManagers)
                               ELSE <<>>)
        /\ Len(released) = Len(_disposables)
        /\ \A i \in 1..Len(_disposables) : released[i] >= 1
        /\ \A i \in 1..Len(_disposables) : ~Subscribed(_disposables[i])

C12_Witness ==
    /\ last.op = "dispose" /\ _initialized /\ folderManagers = 2
    /\ \A i \in 1..Len(_disposables) : released[i] = 1

\* C13: whatever the order in which the awaits of concurrent getChildren
\* calls complete, every root-set node ever constructed is either in the
\* current root set and not disposed, or out of it and disposed; the
\* current root set is the one constructed last.
C13_OldAndNewNeverBothLive ==
    /\ \A n \in RootNodes :
          IF n \in Range(_children) THEN disposeCount[n] = 0 ELSE disposeCount[n] >= 1
    /\ \A n \in Range(_children) : n \in RootNodes /\ n.gen = rootSets

C13_Witness ==
    /\ last.op = "getChildren" /\ last.exit = "root" /\ rootSets = 2
    /\ \E call \in PendingCalls : call.element = NoElement /\ call.pc = "remotes"
    /\ \E n \in RootNodes : disposeCount[n] = 1

\* C14 (as claimed): a getChildren(n) call that returns after a root request
\* disposed n delivers nothing.
C14_StaleResultDiscarded ==
    (Returned /\ last.element \in RootNodes /\ disposeCount[last.element] >= 1) =>
        last.result = <<>>

\* C15: a root request that passes the gates leaves as the current root set
\* the category nodes of the one folder, or one workspace-folder node per
\* folder manager in their order; a root set never holds both kinds.
C15_RootSetShape ==
    /\ (last.op = "getChildren" /\ last.exit = "root") =>
          IF folderManagers = 1
          THEN _children = getCategoryTreeNodes(Provider, rootSets)
          ELSE /\ folderManagers > 1
               /\ Len(_children) = folderManagers
               /\ \A i \in 1..Len(_children) :
                     _children[i] = WorkspaceFolderNode(Provider, rootSets, i)
    /\ \A n, m \in Range(_children) : n.kind = m.kind
    /\ \A n \in Range(_children) : n.kind \in {"Category", "WorkspaceFolder"}

C15_Witness ==
    /\ last.op = "getChildren" /\ last.exit = "root" /\ folderManagers = 2
    /\ Len(_children) = 2 /\ \A n \in Range(_children) : n.kind = "WorkspaceFolder"

\* C16 (as claimed): once dispose() has run, every root-set node ever
\* constructed has been disposed exactly once.
C16_RootNodesDisposedOnce ==
    last.op = "dispose" => \A n \in RootNodes : disposeCount[n] = 1

\* C17: refresh(node) fires one change for that node and refresh() one
\* whole-tree change, in its own turn and nothing more; it leaves the root
\* set, the disposals and the suspended calls as they were.
C17_RefreshFiresOnce ==
    [][last'.op = "refresh" =>
          /\ last'.fired = <<last'.element>>
          /\ UNCHANGED <<_children, disposeCount, rootSets, pending, _disposables, released>>
      ]_vars

C17_Witness ==
    /\ last.op = "refresh" /\ last.element # NoElement /\ last.fired = <<last.element>>
    /\ rootSets = 1

\* The provider has not been disposed.
Alive == \A i \in 1..Len(released) : released[i] = 0

\* C18 (as claimed): initialized or not, a configuration change fires one
\* whole-tree change when it affects the file-list-layout key or the
\* queries key, and none otherwise.
C18_ConfigurationChangeFiresOnce ==
    (last.op = "onDidChangeConfiguration" /\ Alive) =>
        last.fired = IF last.affects \cap {"fileListLayout", "queries"} # {}
                     THEN <<NoElement>> ELSE <<>>

\* C18 (amended): a configuration change fires one whole-tree change for
\* the file-list-layout key when it affects it and, once initialize has
\* run, one for the queries key when it affects it: two for a change that
\* affects both, none for the queries key before initialize.
C18_ConfigurationChangeFiresPerListener ==
    (last.op = "onDidChangeConfiguration" /\ Alive) =>
        last.fired = (IF "fileListLayout" \in last.affects THEN <<NoElement>> ELSE <<>>)
                     \o (IF _initialized /\ "queries" \in last.affects
                         THEN <<NoElement>> ELSE <<>>)

C18_Witness ==
    /\ last.op = "onDidChangeConfiguration" /\ Alive /\ _initialized
    /\ last.affects = {"fileListLayout", "queries"}
    /\ last.fired = <<NoElement, NoElement>>

\* C19: the stored expansion set changes, and is written, only in an expand
\* or collapse event of a category node, which always writes it; an expand
\* or collapse event of another node writes nothing.
C19_OnlyCategoryEventsWrite ==
    [][/\ (workspaceState' # workspaceState \/ last'.wrote) =>
             /\ last'.op \in {"expand", "collapse"}
             /\ last'.element.kind = "Category"
       /\ (last'.op \in {"expand", "collapse"} /\ last'.element.kind = "Category") =>
             /\ last'.wrote
             /\ workspaceState' = UpdateExpandedQueries(workspaceState, last'.element,
                                                         last'.op = "expand")
       /\ (last'.op \in {"expand", "collapse"} /\ last'.element.kind # "Category") =>
             /\ ~last'.wrote
             /\ workspaceState' = workspaceState
      ]_vars

C19_Witness ==
    /\ last.op = "expand" /\ last.element.kind = "WorkspaceFolder"
    /\ ~last.wrote /\ workspaceState = last.before /\ workspaceState # <<>>

\* C20: the root set is replaced, and root-set nodes are disposed, only in
\* the turn of a getChildren call without element that passes the gates;
\* cachedChildren() returns the current root set and leaves it alone.
C20_OnlyRootRequestReplaces ==
    [][/\ (_children' # _children \/ disposeCount' # disposeCount \/ rootSets' # rootSets) =>
             /\ last'.op = "getChildren"
             /\ last'.exit = "root"
             /\ last'.element = NoElement
       /\ (last'.op = "cachedChildren" /\ last'.element = NoElement) =>
             /\ last'.result = _children
             /\ _children' = _children
      ]_vars

C20_Witness ==
    /\ last.op = "cachedChildren" /\ last.element = NoElement
    /\ last.result = _children /\ Len(_children) > 0 /\ rootSets = 1
    /\ state = "Initializing"

====
